---- MODULE Spec2Model ----
(***************************************************************************)
(* A model of src/model.py, class JobRecommendationSystem: the ranker      *)
(* (get_top_job_recommendations), the course enrichment client             *)
(* (get_training_courses with _extract_courses_from_text) and the          *)
(* orchestrator (process_resume_file).                                     *)
(*                                                                         *)
(* Strings of the program are modelled as sequences of tokens (a token is  *)
(* a short substring such as "[", "1." or a newline); scores are small     *)
(* naturals standing for the floats the classifier emits.                  *)
(***************************************************************************)
EXTENDS Integers, Sequences, FiniteSets, TLC

VARIABLES
    job_titles,          \* self.job_titles, set by __init__
    gemini_api_key,      \* self.gemini_api_key, set by __init__
    width,               \* self.model.output_shape[1]
    pc,                  \* position of the running call
    file_path,           \* argument of process_resume_file
    resume_text,         \* local of process_resume_file
    job_recommendations, \* value returned by get_top_job_recommendations
    results,             \* local list of process_resume_file
    ret,                 \* value returned by process_resume_file
    raised,              \* exception that left the running call ("none" if none)
    top_n,               \* argument of get_top_job_recommendations
    predictions,         \* the last model.predict: whether it raised, and predictions[0]
    top_indices,         \* local of get_top_job_recommendations (empty if not reached)
    rankExc,             \* exception raised inside the try block of the ranker ("none" if none)
    courses,             \* value returned by the last get_training_courses
    response,            \* outcome of the last requests.post
    parsePath,           \* branch the last get_training_courses returned from
    scorerCalls,         \* number of model.predict calls made
    httpCalls,           \* number of requests.post calls made
    enrichLog,           \* arguments of the get_training_courses calls, in order
    parse_text           \* the generated text handed to the parser runs

vars == << job_titles, gemini_api_key, width, pc, file_path, resume_text,
           job_recommendations, results, ret, raised, top_n, predictions,
           top_indices, rankExc, courses, response, parsePath, scorerCalls, httpCalls, enrichLog,
           parse_text >>

(***************************************************************************)
(* Bounds of the model.                                                    *)
(***************************************************************************)
MaxWidth == 4        \* widest classifier output of the ranker runs
MaxScore == 1        \* scores are 0..MaxScore
MaxTopN == 5         \* largest top_n passed to the ranker
MaxMap == 4          \* largest loaded mapping file
MaxPieces == 4       \* pieces a response text is put together from
MaxLines == 4        \* lines of the texts of the parser runs
MaxFieldLines == 2   \* lines after the enumerator line of the one-section texts
PipeWidth == 4       \* widest classifier output of the pipeline runs

Min(a, b) == IF a < b THEN a ELSE b
Max(a, b) == IF a > b THEN a ELSE b

(***************************************************************************)
(* Python built-ins the code uses.                                         *)
(***************************************************************************)
\* str(i) of a small non-negative integer.
Digits == << "0", "1", "2", "3", "4", "5", "6", "7", "8", "9" >>
Str(i) == Digits[i + 1]

\* f"Job Category {idx+1}"
Labels == << "Job Category 1", "Job Category 2", "Job Category 3", "Job Category 4",
             "Job Category 5", "Job Category 6", "Job Category 7", "Job Category 8" >>
JobCategoryLabel(idx) == Labels[idx + 1]

\* seq[start:] with Python's treatment of a negative or too large start.
PySliceFrom(seq, start) ==
    LET n == Len(seq)
        s == IF start < 0 THEN Max(n + start, 0) ELSE Min(start, n)
    IN  SubSeq(seq, s + 1, n)

\* seq without the [::-1].
PyNoReverse(seq) == seq

\* seq[::-1]
PyReverse(seq) == [i \in 1..Len(seq) |-> seq[Len(seq) + 1 - i]]

\* d.get(key, default)
DictGet(d, key, default) == IF key \in DOMAIN d THEN d[key] ELSE default

\* len(self.job_titles): the value json.load gave is a dict or a list; either
\* is held as a function from str(position) or key to the element.
PyLen(jt) == Cardinality(DOMAIN jt.items)

(***************************************************************************)
(* __init__: the job title mapping.                                        *)
(***************************************************************************)
Titles == << "Data Scientist", "Software Engineer", "Web Developer", "Product Manager",
             "UX Designer", "Analyst", "Tester", "Writer" >>

\* The synthesized mapping of lines 72 and 76.
DefaultJobTitles(w) ==
    [kind |-> "dict", items |-> [k \in {Str(i) : i \in 0..(w - 1)} |-> JobCategoryLabel(CHOOSE i \in 0..(w - 1) : Str(i) = k)]]

\* What json.load can give for a mapping file: an object keyed "0".."m-1",
\* an object with other keys, or a JSON list.
MappingFiles ==
    {[kind |-> "dict", items |-> [k \in {Str(i) : i \in 0..(m - 1)} |-> Titles[(CHOOSE i \in 0..(m - 1) : Str(i) = k) + 1]]] : m \in 0..MaxMap}
    \cup {[kind |-> "dict", items |-> [k \in {"1", "x"} |-> "Web Developer"]]}
    \cup {[kind |-> "list", items |-> [k \in {"0", "1"} |-> "Data Scientist"]]}

\* self.job_titles after __init__ for a classifier of output width w.
LoadJobTitles(w) == MappingFiles \cup {DefaultJobTitles(w)}

(***************************************************************************)
(* get_top_job_recommendations                                             *)
(***************************************************************************)
\* The exception classes that occur; all derive from Exception.
ExceptionKinds == {"FileNotFoundError", "ValueError", "RuntimeError", "AttributeError",
                   "ConnectionError", "JSONDecodeError", "KeyError"}

\* preprocess_resume: the features, or the zero vector when the vectorizer raises.
PreprocessResume(encoderOk) == IF encoderOk THEN "tfidf" ELSE "zeros"

\* The outcomes of model.predict for a classifier of output width w.
\* The classifier is opaque: any scores, or an exception, for either input.
PredictOutcomes(w, features) ==
    IF features \in {"tfidf", "zeros"}
    THEN {[raises |-> TRUE, scores |-> << >>]}
         \cup {[raises |-> FALSE, scores |-> sc] : sc \in [1..w -> 0..MaxScore]}
    ELSE {}

\* np.argsort(predictions[0]) with the default kind: the category indices
\* (0-based) in ascending order of score. The default sort is not stable, so
\* categories of equal score may come out in any order.
RECURSIVE AscendingOrders(_, _)
AscendingOrders(p, S) ==
    IF S = {} THEN {<< >>}
    ELSE UNION {{<< x >> \o o : o \in AscendingOrders(p, S \ {x})} :
                    x \in {y \in S : \A z \in S : p[y + 1] <= p[z + 1]}}
ArgsortOutcomes(p) == AscendingOrders(p, 0..(Len(p) - 1))

PredictionError == << [job_title |-> "Error in prediction", confidence |-> 0] >>

\* Lines 147-159, the try block: jt is self.job_titles, p the outcome of
\* model.predict, order the outcome of np.argsort and n0 the argument top_n.
RankTry(jt, p, order, n0) ==
    IF p.raises THEN [exc |-> "RuntimeError", value |-> << >>, top |-> << >>]
    ELSE
        LET n == Min(n0, PyLen(jt))
            top == PyReverse(PySliceFrom(order, 0 - n))
        IN  IF jt.kind # "dict" /\ top # << >>
            THEN [exc |-> "AttributeError", value |-> << >>, top |-> top]  \* a list has no .get
            ELSE [exc |-> "none", top |-> top,
                  value |-> [i \in 1..Len(top) |->
                    [job_title |-> DictGet(jt.items, Str(top[i]), JobCategoryLabel(top[i])),
                     confidence |-> p.scores[top[i] + 1]]]]

\* A ranker without the try block: nothing is caught.
RankCatchesNothing(exc) == FALSE

\* The except clause of line 160.
RankCatches(exc) == exc \in ExceptionKinds

\* get_top_job_recommendations: the list returned, and the exception leaving
\* the call ("none" if none).
GetTopJobRecommendations(jt, p, order, n0) ==
    LET t == RankTry(jt, p, order, n0)
    IN  IF t.exc = "none" THEN t
        ELSE IF RankCatches(t.exc)
        THEN [exc |-> "none", value |-> PredictionError, top |-> t.top]
        ELSE t

(***************************************************************************)
(* Text: a string is a sequence of tokens.                                 *)
(***************************************************************************)
IsSpace(t) == t \in {" ", "\n", "\t"}

\* s.find(t) and s.rfind(t): 0-based position, -1 when absent.
Find(s, t) ==
    IF \E i \in 1..Len(s) : s[i] = t
    THEN (CHOOSE i \in 1..Len(s) : s[i] = t /\ \A j \in 1..(i - 1) : s[j] # t) - 1
    ELSE 0 - 1
RFind(s, t) ==
    IF \E i \in 1..Len(s) : s[i] = t
    THEN (CHOOSE i \in 1..Len(s) : s[i] = t /\ \A j \in (i + 1)..Len(s) : s[j] # t) - 1
    ELSE 0 - 1

\* s[a:b] for 0 <= a and 0 <= b.
PySlice(s, a, b) == SubSeq(s, a + 1, Min(b, Len(s)))

\* s.strip()
RECURSIVE LStrip(_)
LStrip(s) == IF s # << >> /\ IsSpace(Head(s)) THEN LStrip(Tail(s)) ELSE s
RECURSIVE RStrip(_)
RStrip(s) ==
    IF s # << >> /\ IsSpace(s[Len(s)]) THEN RStrip(SubSeq(s, 1, Len(s) - 1)) ELSE s
Strip(s) == RStrip(LStrip(s))

\* s.split('\n'): the lines of s, one more than its newlines.
RECURSIVE SplitLines(_)
SplitLines(s) ==
    LET k == Find(s, "\n")
    IN  IF k < 0 THEN << s >>
        ELSE << SubSeq(s, 1, k) >> \o SplitLines(SubSeq(s, k + 2, Len(s)))

(***************************************************************************)
(* json.loads on a token sequence. The JSON tokens are "[", "]", "," and   *)
(* "o" (an object without brackets of its own); a newline or blank is      *)
(* whitespace; any other token makes the text malformed. A parsed list is  *)
(* held as the sequence of its elements, each the tokens of the element    *)
(* without whitespace.                                                     *)
(***************************************************************************)
RECURSIVE SkipWs(_, _)
SkipWs(s, i) == IF i <= Len(s) /\ IsSpace(s[i]) THEN SkipWs(s, i + 1) ELSE i

JsonFail == [ok |-> FALSE, next |-> 0, val |-> << >>, items |-> << >>]

RECURSIVE JoinItems(_)
JoinItems(items) ==
    IF items = << >> THEN << >>
    ELSE IF Len(items) = 1 THEN items[1]
    ELSE items[1] \o << "," >> \o JoinItems(Tail(items))

RECURSIVE JsonValue(_, _)
RECURSIVE JsonElems(_, _)
\* The value that starts at position i (1-based) of s.
JsonValue(s, i) ==
    IF i > Len(s) THEN JsonFail
    ELSE IF s[i] = "o" THEN [ok |-> TRUE, next |-> i + 1, val |-> << "o" >>, items |-> << >>]
    ELSE IF s[i] = "["
    THEN LET j == SkipWs(s, i + 1)
         IN  IF j <= Len(s) /\ s[j] = "]"
             THEN [ok |-> TRUE, next |-> j + 1, val |-> << "[", "]" >>, items |-> << >>]
             ELSE LET r == JsonElems(s, j)
                  IN  IF r.ok
                      THEN [ok |-> TRUE, next |-> r.next,
                            val |-> << "[" >> \o JoinItems(r.items) \o << "]" >>,
                            items |-> r.items]
                      ELSE JsonFail
    ELSE JsonFail
\* The elements of a non-empty list from position i up to its closing bracket.
JsonElems(s, i) ==
    LET v == JsonValue(s, i)
        k == SkipWs(s, v.next)
    IN  IF ~v.ok \/ k > Len(s) THEN JsonFail
        ELSE IF s[k] = "]"
        THEN [ok |-> TRUE, next |-> k + 1, val |-> << >>, items |-> << v.val >>]
        ELSE IF s[k] = ","
        THEN LET r == JsonElems(s, SkipWs(s, k + 1))
             IN  IF r.ok
                 THEN [ok |-> TRUE, next |-> r.next, val |-> << >>,
                       items |-> << v.val >> \o r.items]
                 ELSE JsonFail
        ELSE JsonFail

\* json.loads(s): ok is FALSE where json.JSONDecodeError is raised.
JsonLoads(s) ==
    LET v == JsonValue(s, SkipWs(s, 1))
    IN  IF v.ok /\ SkipWs(s, v.next) = Len(s) + 1
        THEN [ok |-> TRUE, items |-> v.items]
        ELSE [ok |-> FALSE, items |-> << >>]

(***************************************************************************)
(* _extract_courses_from_text                                              *)
(***************************************************************************)
\* The prefixes of line 265; a line starts with one when its first token is one.
EnumTokens == {"1.", "2.", "3.", "Course 1:", "Course 2:", "Course 3:"}

\* t.lower()
Lower(t) ==
    CASE t \in {"Course 1:", "Course 2:", "Course 3:"} -> "course n:"
      [] t \in {"Course A", "Course B", "COURSE"} -> "course"
      [] t \in {"Name", "NAME"} -> "name"
      [] t \in {"Provider", "PROVIDER"} -> "provider"
      [] t \in {"Description"} -> "description"
      [] t \in {"URL", "Url"} -> "url"
      [] t \in {"Relevance", "Relevant"} -> "relevan"
      [] t \in {"Relevant URL"} -> "relevant url"
      [] t \in {".PDF", ".Pdf"} -> ".pdf"
      [] t \in {".DOCX", ".Docx"} -> ".docx"
      [] OTHER -> t

\* kw in t, for a lower-case token t.
Contains(t, kw) ==
    CASE t \in {"course n:", "course"} -> kw = "course"
      [] t = "https://x" -> kw = "http"
      [] t = "relevant url" -> kw \in {"relevan", "url"}
      [] OTHER -> kw = t

\* kw in line.lower()
LineContains(line, kw) == \E i \in 1..Len(line) : Contains(Lower(line[i]), kw)

\* The text of token t before and after its first colon.
HasColon(t) == t \in {":", "Course 1:", "Course 2:", "Course 3:", "https://x"}
BeforeColon(t) ==
    CASE t = "Course 1:" -> << "Course 1" >>
      [] t = "Course 2:" -> << "Course 2" >>
      [] t = "Course 3:" -> << "Course 3" >>
      [] t = "https://x" -> << "https" >>
      [] OTHER -> << >>
AfterColon(t) == IF t = "https://x" THEN << "//x" >> ELSE << >>

\* line.split(':', 1)
SplitColon(line) ==
    IF \E i \in 1..Len(line) : HasColon(line[i])
    THEN LET k == CHOOSE i \in 1..Len(line) :
                      HasColon(line[i]) /\ \A j \in 1..(i - 1) : ~HasColon(line[j])
         IN  << SubSeq(line, 1, k - 1) \o BeforeColon(line[k]),
                AfterColon(line[k]) \o SubSeq(line, k + 1, Len(line)) >>
    ELSE << line >>

\* line.strip().startswith(('1.', '2.', '3.', 'Course 1:', 'Course 2:', 'Course 3:'))
StartsSection(line) == Strip(line) # << >> /\ Head(Strip(line)) \in EnumTokens

\* The loop without lines 272-273: the section open at the end is not appended.
RECURSIVE SplitSectionsNoTrailing(_, _, _, _)
SplitSectionsNoTrailing(lines, i, sections, current_section) ==
    IF i > Len(lines) THEN sections
    ELSE IF StartsSection(lines[i])
    THEN SplitSectionsNoTrailing(lines, i + 1,
                                 IF current_section # << >>
                                 THEN Append(sections, current_section) ELSE sections,
                                 lines[i])
    ELSE IF current_section # << >>
    THEN SplitSectionsNoTrailing(lines, i + 1, sections,
                                 current_section \o << "\n" >> \o lines[i])
    ELSE SplitSectionsNoTrailing(lines, i + 1, sections, current_section)

\* The loop with a plain else at line 269: a line before the first enumerator
\* opens a section.
RECURSIVE SplitSectionsKeepPreamble(_, _, _, _)
SplitSectionsKeepPreamble(lines, i, sections, current_section) ==
    IF i > Len(lines)
    THEN IF current_section # << >> THEN Append(sections, current_section) ELSE sections
    ELSE IF StartsSection(lines[i])
    THEN SplitSectionsKeepPreamble(lines, i + 1,
                                   IF current_section # << >>
                                   THEN Append(sections, current_section) ELSE sections,
                                   lines[i])
    ELSE SplitSectionsKeepPreamble(lines, i + 1, sections,
                                   current_section \o << "\n" >> \o lines[i])

\* Lines 264-273: the loop over lines[i..], then the trailing section.
RECURSIVE SplitSections(_, _, _, _)
SplitSections(lines, i, sections, current_section) ==
    IF i > Len(lines)
    THEN IF current_section # << >> THEN Append(sections, current_section) ELSE sections
    ELSE IF StartsSection(lines[i])
    THEN SplitSections(lines, i + 1,
                       IF current_section # << >> THEN Append(sections, current_section)
                                                  ELSE sections,
                       lines[i])
    ELSE IF current_section # << >>
    THEN SplitSections(lines, i + 1, sections, current_section \o << "\n" >> \o lines[i])
    ELSE SplitSections(lines, i + 1, sections, current_section)

\* The chain of lines 289-306 with the provider test put first.
ApplyLineProviderFirst(course, raw) ==
    LET line == Strip(raw)
        parts == SplitColon(line)
        value == IF Len(parts) > 1 THEN Strip(parts[2]) ELSE << >>
        set(f) == IF Len(parts) > 1 THEN [course EXCEPT ![f] = value] ELSE course
    IN  IF LineContains(line, "provider") THEN set("provider")
        ELSE IF LineContains(line, "course") \/ LineContains(line, "name") THEN set("course_name")
        ELSE IF LineContains(line, "description") THEN set("description")
        ELSE IF LineContains(line, "url") \/ LineContains(line, "http") THEN set("url")
        ELSE IF LineContains(line, "relevan") THEN set("relevance")
        ELSE course

\* Lines 286-306: one line of a section applied to the record.
ApplyLine(course, raw) ==
    LET line == Strip(raw)
        parts == SplitColon(line)
        value == IF Len(parts) > 1 THEN Strip(parts[2]) ELSE << >>
        set(f) == IF Len(parts) > 1 THEN [course EXCEPT ![f] = value] ELSE course
    IN  IF LineContains(line, "course") \/ LineContains(line, "name") THEN set("course_name")
        ELSE IF LineContains(line, "provider") THEN set("provider")
        ELSE IF LineContains(line, "description") THEN set("description")
        ELSE IF LineContains(line, "url") \/ LineContains(line, "http") THEN set("url")
        ELSE IF LineContains(line, "relevan") THEN set("relevance")
        ELSE course

RECURSIVE ApplyLines(_, _, _)
ApplyLines(course, lines, i) ==
    IF i > Len(lines) THEN course ELSE ApplyLines(ApplyLine(course, lines[i]), lines, i + 1)

\* Lines 277-308: the record of one section.
CourseOfSection(section) ==
    ApplyLines([course_name |-> << "Unknown Course" >>,
                provider |-> << "Unknown Provider" >>,
                description |-> section,
                url |-> << >>,
                relevance |-> << >>],
               SplitLines(section), 1)

\* courses[:3]
FirstThree(seq) == SubSeq(seq, 1, Min(3, Len(seq)))

ExtractCoursesFromText(text) ==
    LET sections == SplitSections(SplitLines(text), 1, << >>, << >>)
    IN  FirstThree([i \in 1..Len(sections) |-> CourseOfSection(sections[i])])

(***************************************************************************)
(* get_training_courses                                                    *)
(***************************************************************************)
\* str(n) of a non-negative integer, one token per digit.
RECURSIVE DecStr(_)
DecStr(n) == IF n < 10 THEN << Digits[n + 1] >> ELSE DecStr(n \div 10) \o << Digits[(n % 10) + 1] >>

\* A test for None alone: an empty credential counts as configured.
KeyIsNone(key) == key = "None"

\* not self.gemini_api_key: os.environ.get gave None or an empty string.
KeyMissing(key) == key \in {"None", ""}

\* The outcomes of requests.post: a transport exception, or a response with a
\* status code and a body. A body is not JSON ("notjson"), a JSON object
\* without the candidates path ("nopath"), an error object with a message
\* ("error"), or a candidates object whose text is resp.text ("candidates").
ResponseOf(kind, status, body, text) ==
    [kind |-> kind, status |-> status, body |-> body, text |-> text]

\* str(e) of the exception a 200 response with this body raises at lines 211-212,
\* or of the transport exception.
ExceptionText(resp) ==
    IF resp.kind = "exception" THEN << "Connection refused" >>
    ELSE IF resp.body = "notjson" THEN << "Expecting value" >>
    ELSE << "'candidates'" >>

\* error_msg of lines 225-230.
ErrorMsg(resp) ==
    << "Error calling Gemini API: " >> \o DecStr(resp.status) \o << " - " >> \o
    (IF resp.body = "error" THEN << "Quota exceeded" >>
     ELSE IF resp.body = "notjson" THEN << "<html>" >>
     ELSE << "Unknown error" >>)

Sentinel(name, description, relevance) ==
    << [course_name |-> << name >>, provider |-> << "N/A" >>, description |-> description,
        url |-> << >>, relevance |-> << relevance >>] >>

\* Lines 213-223: what the 200 branch returns for the generated text.
ParseTextResponse(text) ==
    LET json_start == Find(text, "[")
        json_end == RFind(text, "]") + 1
    IN  IF json_start >= 0 /\ json_end > 0
        THEN LET parsed == JsonLoads(PySlice(text, json_start, json_end))
             IN  IF parsed.ok
                 THEN [courses |-> parsed.items, path |-> "json"]
                 ELSE [courses |-> ExtractCoursesFromText(text), path |-> "fallback"]
        ELSE [courses |-> ExtractCoursesFromText(text), path |-> "fallback"]

\* A handler that names the transport errors alone.
EnrichCatchesConnectionError(exc) == exc = "ConnectionError"

\* The except clause of line 239.
EnrichCatches(exc) == exc \in ExceptionKinds

\* The exception lines 209-212 raise for this outcome, "none" if none.
RequestRaises(resp) ==
    IF resp.kind = "exception" THEN "ConnectionError"
    ELSE IF resp.status = 200 /\ resp.body = "notjson" THEN "JSONDecodeError"
    ELSE IF resp.status = 200 /\ resp.body # "candidates" THEN "KeyError"
    ELSE "none"

\* get_training_courses for the outcome resp of its request: the list returned,
\* the branch it returned from, the exception leaving it ("none" if none) and
\* the number of requests.post calls made (line 209 is the only one, outside any loop).
GetTrainingCourses(key, resp) ==
    IF KeyMissing(key)
    THEN [courses |-> Sentinel("API Key Missing",
                               << "No Gemini API key provided in environment variables." >>,
                               "Please set the VITE_GEMINI_API_KEY environment variable."),
          path |-> "nokey", exc |-> "none", posts |-> 0]
    ELSE IF RequestRaises(resp) # "none"
    THEN IF EnrichCatches(RequestRaises(resp))
         THEN [courses |-> Sentinel("Exception",
                                    << "Exception when calling Gemini API: " >> \o ExceptionText(resp),
                                    "Please check your network connection."),
               path |-> "exception", exc |-> "none", posts |-> 1]
         ELSE [courses |-> << >>, path |-> "raised", exc |-> RequestRaises(resp), posts |-> 1]
    ELSE IF resp.status = 200
    THEN [courses |-> ParseTextResponse(resp.text).courses,
          path |-> ParseTextResponse(resp.text).path, exc |-> "none", posts |-> 1]
    ELSE [courses |-> Sentinel("API Error", ErrorMsg(resp),
                               "Please check your API key and network connection."),
          path |-> "apierror", exc |-> "none", posts |-> 1]

(***************************************************************************)
(* extract_text_from_resume                                                *)
(***************************************************************************)
\* s.lower() and s.endswith(t)
LowerSeq(s) == [i \in 1..Len(s) |-> Lower(s[i])]
EndsWith(s, t) == s # << >> /\ s[Len(s)] = t

\* The extractor with the extension looked at before the existence of the file.
ExtractExtensionFirst(path, parserOk, text) ==
    IF ~(EndsWith(LowerSeq(path.name), ".pdf") \/ EndsWith(LowerSeq(path.name), ".docx"))
    THEN [exc |-> "ValueError",
          msg |-> << "Unsupported file format. Only .pdf and .docx are supported." >>,
          text |-> << >>]
    ELSE IF ~path.exists
    THEN [exc |-> "FileNotFoundError", msg |-> << "Resume file not found: " >> \o path.name,
          text |-> << >>]
    ELSE IF parserOk THEN [exc |-> "none", msg |-> << >>, text |-> text]
    ELSE [exc |-> "ValueError", msg |-> << "Error extracting text: " >>, text |-> << >>]

\* path: whether os.path.exists holds of it, and its name. parserOk: whether
\* pdfplumber or docx reads the file; text: what it reads.
ExtractTextFromResume(path, parserOk, text) ==
    IF ~path.exists
    THEN [exc |-> "FileNotFoundError", msg |-> << "Resume file not found: " >> \o path.name,
          text |-> << >>]
    ELSE IF EndsWith(LowerSeq(path.name), ".pdf")
    THEN IF parserOk THEN [exc |-> "none", msg |-> << >>, text |-> text]
         ELSE [exc |-> "ValueError", msg |-> << "Error extracting text from PDF: " >>,
               text |-> << >>]
    ELSE IF EndsWith(LowerSeq(path.name), ".docx")
    THEN IF parserOk THEN [exc |-> "none", msg |-> << >>, text |-> text]
         ELSE [exc |-> "ValueError", msg |-> << "Error extracting text from DOCX: " >>,
               text |-> << >>]
    ELSE [exc |-> "ValueError",
          msg |-> << "Unsupported file format. Only .pdf and .docx are supported." >>,
          text |-> << >>]

(***************************************************************************)
(* Inputs.                                                                 *)
(***************************************************************************)
FileNames == {<< "cv", ".PDF" >>, << "cv", ".docx" >>, << "cv", ".txt" >>, << "cv" >>,
              << "cv", ".pdf", ".bak" >>}
FilePaths == {[exists |-> e, name |-> n] : e \in BOOLEAN, n \in FileNames}
ResumeTexts == {<< "Python", "SQL" >>}
Keys == {"None", "", "key"}

\* top_n=3, the default process_resume_file relies on.
DefaultTopN == 3

NoResponse == ResponseOf("none", 0, "none", << >>)
NoPrediction == [raises |-> FALSE, scores |-> << >>]
NoPath == [exists |-> FALSE, name |-> << >>]
NoReturn == [pending |-> TRUE]

\* The pieces a generated text is put together from.
Pieces == {<< "[" >>, << "]" >>, << "o" >>, << "," >>, << "Udemy" >>, << "\n", "1." >>,
           << "o", ",", "o", ",", "o", ",", "o" >>}
RECURSIVE TextsOf(_)
TextsOf(n) ==
    IF n = 0 THEN {<< >>}
    ELSE LET shorter == TextsOf(n - 1)
         IN  shorter \cup {t \o q : t \in shorter, q \in Pieces}
Texts == TextsOf(MaxPieces)

StatusCodes == {200, 404, 500}
Bodies == {"notjson", "nopath", "error", "candidates"}
Responses ==
    {ResponseOf("exception", 0, "none", << >>)}
    \cup {ResponseOf("http", st, b, << >>) : st \in StatusCodes, b \in Bodies \ {"candidates"}}
    \cup {ResponseOf("http", st, "candidates", << >>) : st \in StatusCodes \ {200}}
    \cup {ResponseOf("http", 200, "candidates", t) : t \in Texts}

\* The mappings the pipeline runs draw from: an empty file, a file of two
\* titles, a JSON list, and the synthesized mapping.
PipeJobTitles(w) ==
    {jt \in LoadJobTitles(w) :
        \/ jt = DefaultJobTitles(w)
        \/ jt.kind = "list"
        \/ PyLen(jt) \in {0, 2} /\ DOMAIN jt.items \subseteq {"0", "1"}}

\* The responses the pipeline runs draw from.
PipeResponses ==
    {ResponseOf("exception", 0, "none", << >>),
     ResponseOf("http", 200, "candidates", << "[", "o", "]" >>)}

(***************************************************************************)
(* The ranker alone: one call of get_top_job_recommendations.              *)
(***************************************************************************)
Idle ==
    /\ file_path = NoPath
    /\ resume_text = << >>
    /\ job_recommendations = << >>
    /\ results = << >>
    /\ ret = NoReturn
    /\ raised = "none"
    /\ predictions = NoPrediction
    /\ top_indices = << >>
    /\ rankExc = "none"
    /\ courses = << >>
    /\ response = NoResponse
    /\ parsePath = "none"
    /\ scorerCalls = 0
    /\ httpCalls = 0
    /\ enrichLog = << >>
    /\ parse_text = << >>

InitRank ==
    /\ width \in 1..MaxWidth
    /\ job_titles \in LoadJobTitles(width)
    /\ gemini_api_key = "None"
    /\ top_n \in 0..MaxTopN
    /\ pc = "rank"
    /\ Idle

RankCall ==
    /\ pc = "rank"
    /\ \E encoderOk \in BOOLEAN :
         \E p \in PredictOutcomes(width, PreprocessResume(encoderOk)) :
           \E order \in (IF p.raises THEN {<< >>} ELSE ArgsortOutcomes(p.scores)) :
              /\ predictions' = p
              /\ rankExc' = RankTry(job_titles, p, order, top_n).exc
              /\ top_indices' = RankTry(job_titles, p, order, top_n).top
              /\ job_recommendations' = GetTopJobRecommendations(job_titles, p, order, top_n).value
              /\ raised' = GetTopJobRecommendations(job_titles, p, order, top_n).exc
    /\ scorerCalls' = scorerCalls + 1
    /\ pc' = "rank_done"
    /\ UNCHANGED << parse_text, job_titles, gemini_api_key, width, file_path, resume_text, results, ret,
                    top_n, courses, response, parsePath, httpCalls, enrichLog >>

NextRank == RankCall
SpecRank == InitRank /\ [][NextRank]_vars

(***************************************************************************)
(* The enrichment client alone: one call of get_training_courses.          *)
(***************************************************************************)
JobTitleArgs == {"Data Scientist", "Error in prediction"}

InitEnrich ==
    /\ width = 1
    /\ job_titles = DefaultJobTitles(1)
    /\ gemini_api_key \in Keys
    /\ top_n = DefaultTopN
    /\ pc = "enrich"
    /\ Idle

EnrichCall ==
    /\ pc = "enrich"
    /\ \E job_title \in JobTitleArgs :
         enrichLog' = Append(enrichLog, [job_title |-> job_title, resume_text |-> resume_text])
    /\ \E resp \in (IF KeyMissing(gemini_api_key) THEN {NoResponse} ELSE Responses) :
          /\ response' = resp
          /\ httpCalls' = httpCalls + GetTrainingCourses(gemini_api_key, resp).posts
          /\ courses' = GetTrainingCourses(gemini_api_key, resp).courses
          /\ parsePath' = GetTrainingCourses(gemini_api_key, resp).path
          /\ raised' = GetTrainingCourses(gemini_api_key, resp).exc
    /\ pc' = "enrich_done"
    /\ UNCHANGED << parse_text, job_titles, gemini_api_key, width, file_path, resume_text,
                    job_recommendations, results, ret, top_n, predictions, top_indices, rankExc,
                    scorerCalls >>

NextEnrich == EnrichCall
SpecEnrich == InitEnrich /\ [][NextEnrich]_vars

(***************************************************************************)
(* The fallback parser: one call of _extract_courses_from_text on a text,  *)
(* or one get_training_courses whose request is answered 200 with it.      *)
(***************************************************************************)
\* '\n'.join(lines)
RECURSIVE JoinLines(_)
JoinLines(lines) ==
    IF lines = << >> THEN << >>
    ELSE IF Len(lines) = 1 THEN lines[1]
    ELSE lines[1] \o << "\n" >> \o JoinLines(Tail(lines))

\* The lines the texts of the parser runs are made of.
ParseLines == {<< "1.", "Course A" >>,
               << "2.", "Course B" >>,
               << " ", "Course 3:", " ", "Udemy" >>,
               << "Provider", ":", " ", "Udemy" >>,
               << "Provider", ":", " ", "edX" >>,
               << "[" >>,
               << "o", "]" >>}
RECURSIVE LineSeqs(_, _)
LineSeqs(L, n) ==
    IF n = 0 THEN {<< >>}
    ELSE LET shorter == LineSeqs(L, n - 1)
         IN  shorter \cup {Append(ls, l) : ls \in {x \in shorter : Len(x) = n - 1}, l \in L}
ParseTexts == {JoinLines(ls) : ls \in LineSeqs(ParseLines, MaxLines)}

InitParse ==
    /\ width = 1
    /\ job_titles = DefaultJobTitles(1)
    /\ gemini_api_key = "key"
    /\ top_n = DefaultTopN
    /\ pc = "parse"
    /\ file_path = NoPath
    /\ resume_text = << >>
    /\ job_recommendations = << >>
    /\ results = << >>
    /\ ret = NoReturn
    /\ raised = "none"
    /\ predictions = NoPrediction
    /\ top_indices = << >>
    /\ rankExc = "none"
    /\ courses = << >>
    /\ response = NoResponse
    /\ parsePath = "none"
    /\ scorerCalls = 0
    /\ httpCalls = 0
    /\ enrichLog = << >>
    /\ parse_text \in ParseTexts

\* _extract_courses_from_text(parse_text), called on its own.
ExtractCall ==
    /\ pc = "parse"
    /\ courses' = ExtractCoursesFromText(parse_text)
    /\ parsePath' = "direct"
    /\ pc' = "parse_done"
    /\ UNCHANGED << parse_text, job_titles, gemini_api_key, width, file_path, resume_text,
                    job_recommendations, results, ret, raised, top_n, predictions,
                    top_indices, rankExc, response, scorerCalls, httpCalls, enrichLog >>

\* get_training_courses whose request is answered 200 with parse_text as
\* the generated text.
EnrichText ==
    /\ pc = "parse"
    /\ enrichLog' = Append(enrichLog, [job_title |-> "Data Scientist",
                                       resume_text |-> resume_text])
    /\ LET resp == ResponseOf("http", 200, "candidates", parse_text)
       IN  /\ response' = resp
           /\ httpCalls' = httpCalls + GetTrainingCourses(gemini_api_key, resp).posts
           /\ courses' = GetTrainingCourses(gemini_api_key, resp).courses
           /\ parsePath' = GetTrainingCourses(gemini_api_key, resp).path
           /\ raised' = GetTrainingCourses(gemini_api_key, resp).exc
    /\ pc' = "enrich_done"
    /\ UNCHANGED << parse_text, job_titles, gemini_api_key, width, file_path, resume_text,
                    job_recommendations, results, ret, top_n, predictions, top_indices,
                    rankExc, scorerCalls >>

NextParse == ExtractCall \/ EnrichText
SpecParse == InitParse /\ [][NextParse]_vars

(***************************************************************************)
(* _extract_courses_from_text on texts of one section: an enumerator line  *)
(* followed by lines with and without field keywords and colons.           *)
(***************************************************************************)
FirstLines == {<< "1.", "Udemy" >>,
               << "Course 1:", " ", "Course A" >>}
FieldLines == {<< "Provider", ":", " ", "Udemy" >>,
               << "Provider", ":", "Course A" >>,
               << "Name", ":", "edX" >>,
               << "Description", ":", "Udemy" >>,
               << "URL", ":", " ", "https://x" >>,
               << "https://x" >>,
               << "Relevant URL", ":", "Udemy" >>,
               << " ", "Relevance", ":", "edX", " " >>,
               << "Udemy", ":", "edX" >>,
               << "PROVIDER", " ", "edX" >>}
FieldTexts == {JoinLines(<< first >> \o ls) :
                   first \in FirstLines, ls \in LineSeqs(FieldLines, MaxFieldLines)}

InitFields ==
    /\ width = 1
    /\ job_titles = DefaultJobTitles(1)
    /\ gemini_api_key = "key"
    /\ top_n = DefaultTopN
    /\ pc = "parse"
    /\ file_path = NoPath
    /\ resume_text = << >>
    /\ job_recommendations = << >>
    /\ results = << >>
    /\ ret = NoReturn
    /\ raised = "none"
    /\ predictions = NoPrediction
    /\ top_indices = << >>
    /\ rankExc = "none"
    /\ courses = << >>
    /\ response = NoResponse
    /\ parsePath = "none"
    /\ scorerCalls = 0
    /\ httpCalls = 0
    /\ enrichLog = << >>
    /\ parse_text \in FieldTexts

NextFields == ExtractCall
SpecFields == InitFields /\ [][NextFields]_vars

(***************************************************************************)
(* process_resume_file, one run, step by step.                             *)
(***************************************************************************)
\* A handler that names ValueError alone.
ProcessCatchesValueError(exc) == exc = "ValueError"

\* The except clause of line 337.
ProcessCatches(exc) == exc \in ExceptionKinds

\* An exception of text msg reaches the handler of lines 337-338.
ProcessFails(exc, msg) ==
    /\ pc' = "done"
    /\ IF ProcessCatches(exc)
       THEN ret' = [error |-> msg] /\ raised' = "none"
       ELSE ret' = ret /\ raised' = exc

Init ==
    /\ width \in 1..PipeWidth
    /\ job_titles \in PipeJobTitles(width)
    /\ gemini_api_key \in Keys
    /\ top_n = DefaultTopN
    /\ pc = "start"
    /\ file_path \in FilePaths
    /\ resume_text = << >>
    /\ job_recommendations = << >>
    /\ results = << >>
    /\ ret = NoReturn
    /\ raised = "none"
    /\ predictions = NoPrediction
    /\ top_indices = << >>
    /\ rankExc = "none"
    /\ courses = << >>
    /\ response = NoResponse
    /\ parsePath = "none"
    /\ scorerCalls = 0
    /\ httpCalls = 0
    /\ enrichLog = << >>
    /\ parse_text = << >>

\* Line 323.
ProcessExtract ==
    /\ pc = "start"
    /\ \E parserOk \in BOOLEAN, text \in ResumeTexts :
         LET r == ExtractTextFromResume(file_path, parserOk, text)
         IN  IF r.exc = "none"
             THEN /\ resume_text' = r.text
                  /\ pc' = "extracted"
                  /\ UNCHANGED << ret, raised >>
             ELSE /\ ProcessFails(r.exc, r.msg)
                  /\ UNCHANGED resume_text
    /\ UNCHANGED << parse_text, job_titles, gemini_api_key, width, file_path, job_recommendations,
                    results, top_n, predictions, top_indices, rankExc, courses, response, parsePath,
                    scorerCalls, httpCalls, enrichLog >>

\* Lines 324-326.
ProcessRank ==
    /\ pc = "extracted"
    /\ \E encoderOk \in BOOLEAN :
         \E p \in PredictOutcomes(width, PreprocessResume(encoderOk)) :
           \E order \in (IF p.raises THEN {<< >>} ELSE ArgsortOutcomes(p.scores)) :
             LET r == GetTopJobRecommendations(job_titles, p, order, top_n)
             IN  /\ predictions' = p
                 /\ rankExc' = RankTry(job_titles, p, order, top_n).exc
                 /\ top_indices' = RankTry(job_titles, p, order, top_n).top
                 /\ IF r.exc = "none"
                    THEN /\ job_recommendations' = r.value
                         /\ pc' = "enrich"
                         /\ UNCHANGED << ret, raised >>
                    ELSE /\ ProcessFails(r.exc, << "predict failed" >>)
                         /\ UNCHANGED job_recommendations
    /\ scorerCalls' = scorerCalls + 1
    /\ results' = << >>
    /\ UNCHANGED << parse_text, job_titles, gemini_api_key, width, file_path, resume_text, top_n,
                    courses, response, parsePath, httpCalls, enrichLog >>

\* Lines 327-334: one iteration of the loop.
ProcessEnrich ==
    /\ pc = "enrich"
    /\ Len(results) < Len(job_recommendations)
    /\ LET job == job_recommendations[Len(results) + 1]
       IN  \E resp \in (IF KeyMissing(gemini_api_key) THEN {NoResponse} ELSE PipeResponses) :
             LET r == GetTrainingCourses(gemini_api_key, resp)
             IN  /\ response' = resp
                 /\ httpCalls' = httpCalls + GetTrainingCourses(gemini_api_key, resp).posts
                 /\ enrichLog' = Append(enrichLog, [job_title |-> job.job_title,
                                                    resume_text |-> resume_text])
                 /\ courses' = r.courses
                 /\ parsePath' = r.path
                 /\ IF r.exc = "none"
                    THEN /\ results' = Append(results,
                                              [job_title |-> job.job_title,
                                               confidence |-> job.confidence,
                                               training_courses |-> r.courses])
                         /\ UNCHANGED << pc, ret, raised >>
                    ELSE /\ ProcessFails(r.exc, << "enrichment failed" >>)
                         /\ UNCHANGED results
    /\ UNCHANGED << parse_text, job_titles, gemini_api_key, width, file_path, resume_text,
                    job_recommendations, top_n, predictions, top_indices, rankExc, scorerCalls >>

\* Line 336.
ProcessReturn ==
    /\ pc = "enrich"
    /\ Len(results) = Len(job_recommendations)
    /\ ret' = [recommendations |-> results]
    /\ pc' = "done"
    /\ UNCHANGED << parse_text, job_titles, gemini_api_key, width, file_path, resume_text,
                    job_recommendations, results, raised, top_n, predictions, top_indices, rankExc,
                    courses, response, parsePath, scorerCalls, httpCalls, enrichLog >>

Next == ProcessExtract \/ ProcessRank \/ ProcessEnrich \/ ProcessReturn
Spec == Init /\ [][Next]_vars

(***************************************************************************)
(* Properties of process_resume_file (specification Spec).                 *)
(***************************************************************************)
IsErrorShape(r) == DOMAIN r = {"error"}
IsSuccessShape(r) == DOMAIN r = {"recommendations"}

\* C1: process_resume_file never raises to its caller, and whatever the
\* extractor, encoder, scorer and enrichment calls did, the value it returns
\* has exactly one of the two top-level keys 'recommendations' and 'error'.
C1_NeverRaisesOneShape ==
    /\ raised = "none"
    /\ pc = "done" => (IsErrorShape(ret) \/ IsSuccessShape(ret))

\* A run that ended in the error shape for a file that exists.
C1_Witness == pc = "done" /\ IsErrorShape(ret) /\ file_path.exists

SupportedName(name) ==
    name # << >> /\ name[Len(name)] \in {".pdf", ".PDF", ".Pdf", ".docx", ".DOCX", ".Docx"}

\* C3: for a path that does not exist, and for an existing path whose
\* extension is neither .pdf nor .docx in any letter case, the run makes no
\* scorer call and no HTTP call and ends in the error shape without raising;
\* a path that does not exist gets the not-found message whatever its extension.
C3_BadPathGivesError ==
    (~file_path.exists \/ ~SupportedName(file_path.name)) =>
        /\ scorerCalls = 0
        /\ httpCalls = 0
        /\ raised = "none"
        /\ pc \in {"start", "done"}
        /\ pc = "done" =>
             /\ IsErrorShape(ret)
             /\ ~file_path.exists =>
                  ret.error = << "Resume file not found: " >> \o file_path.name
             /\ file_path.exists =>
                  ret.error = << "Unsupported file format. Only .pdf and .docx are supported." >>

\* A finished run for a path that neither exists nor has a supported extension.
C3_Witness == pc = "done" /\ ~file_path.exists /\ file_path.name = << "cv", ".txt" >>

(***************************************************************************)
(* Properties of get_top_job_recommendations (specification SpecRank).     *)
(***************************************************************************)
\* The call returned from its try block.
RankReturned == pc = "rank_done" /\ rankExc = "none"
Selected == {top_indices[i] : i \in 1..Len(top_indices)}
Unselected == (0..(width - 1)) \ Selected
ScoreOf(idx) == predictions.scores[idx + 1]

\* C4: for every score vector over C categories, every top_n >= 0 and every
\* loaded mapping, the ranker returns exactly min(top_n, C) recommendations.
C4_LengthIsMinTopNWidth ==
    RankReturned => Len(job_recommendations) = Min(top_n, width)

\* C5, as claimed: the recommendations are the highest-scoring categories in
\* non-increasing confidence order, and of two categories with equal scores
\* the one with the lower index is selected first and listed first.
C5_TiesLowerIndexFirst ==
    RankReturned =>
        /\ \A i, j \in 1..Len(top_indices) :
             i < j => \/ ScoreOf(top_indices[i]) > ScoreOf(top_indices[j])
                      \/ /\ ScoreOf(top_indices[i]) = ScoreOf(top_indices[j])
                         /\ top_indices[i] < top_indices[j]
        /\ \A c \in Unselected, s \in Selected :
             \/ ScoreOf(c) < ScoreOf(s)
             \/ ScoreOf(c) = ScoreOf(s) /\ s < c

\* C5, amended: the recommendations are distinct categories, each with its own
\* score as confidence, listed in non-increasing confidence order, and no
\* category left out scores higher than one that is listed; nothing is
\* promised about the order or the selection among equal scores.
C5_HighestScoresNonIncreasing ==
    RankReturned =>
        /\ Len(job_recommendations) = Len(top_indices)
        /\ \A i \in 1..Len(top_indices) :
             /\ top_indices[i] \in 0..(width - 1)
             /\ job_recommendations[i].confidence = ScoreOf(top_indices[i])
        /\ \A i, j \in 1..Len(top_indices) :
             i < j => /\ top_indices[i] # top_indices[j]
                      /\ job_recommendations[i].confidence >= job_recommendations[j].confidence
        /\ \A c \in Unselected, s \in Selected : ScoreOf(c) <= ScoreOf(s)

\* A ranking that lists a higher index before a lower one of the same score,
\* with a strictly lower score listed after them and a category left out.
C5_Witness ==
    /\ RankReturned
    /\ Unselected # {}
    /\ \E i, j, k \in 1..Len(top_indices) :
         /\ i < j /\ j < k
         /\ ScoreOf(top_indices[i]) = ScoreOf(top_indices[j])
         /\ top_indices[i] > top_indices[j]
         /\ ScoreOf(top_indices[j]) > ScoreOf(top_indices[k])

(***************************************************************************)
(* Properties of get_training_courses (specification SpecEnrich).          *)
(***************************************************************************)
EnrichReturned == pc = "enrich_done"
Got200Text == response.kind = "http" /\ response.status = 200 /\ response.body = "candidates"

\* C6: every list get_training_courses returns has at most 3 entries, on
\* every path.
C6_AtMostThreeCourses == EnrichReturned => Len(courses) <= 3

\* C7: one call makes no HTTP request when no credential is configured and
\* then returns exactly one record named 'API Key Missing'; with a credential
\* it makes exactly one request, whatever the response.
C7_ZeroOrOnePost ==
    /\ httpCalls <= 1
    /\ EnrichReturned =>
         IF gemini_api_key \in {"None", ""}
         THEN /\ httpCalls = 0
              /\ Len(courses) = 1
              /\ courses[1].course_name = << "API Key Missing" >>
         ELSE httpCalls = 1

\* A call that got a 500 response and made one request.
C7_Witness ==
    /\ EnrichReturned
    /\ gemini_api_key = "key"
    /\ response.kind = "http" /\ response.status = 500
    /\ httpCalls = 1

\* C9: on HTTP 200, when the first '[' of the text opens a well-formed JSON
\* list, the call returns exactly that list, whatever prose surrounds it; the
\* fallback parser is used only when there is no such list.
C9_FirstSpanParsed ==
    (EnrichReturned /\ Got200Text) =>
        LET start == Find(response.text, "[")
            v == JsonValue(response.text, start + 1)
        IN  (start >= 0 /\ v.ok) => (parsePath = "json" /\ courses = v.items)

\* s holds sub as a run of consecutive tokens.
ContainsSeq(s, sub) ==
    \E i \in 0..(Len(s) - Len(sub)) : SubSeq(s, i + 1, i + Len(sub)) = sub
StatusDigits(code) ==
    CASE code = 404 -> << "4", "0", "4" >>
      [] code = 500 -> << "5", "0", "0" >>
      [] OTHER -> << "2", "0", "0" >>

\* C10: get_training_courses never raises, and a failed request gives a list
\* of exactly one sentinel: 'API Error' with the status code in description
\* for a non-200 response, 'Exception' with the exception text for a
\* transport exception, and an error sentinel too (not a parsed list) for a
\* 200 whose body is not JSON or lacks the candidates path.
C10_FailuresGiveOneSentinel ==
    /\ raised = "none"
    /\ (EnrichReturned /\ response.kind = "http" /\ response.status # 200) =>
         /\ Len(courses) = 1
         /\ courses[1].course_name = << "API Error" >>
         /\ ContainsSeq(courses[1].description, StatusDigits(response.status))
    /\ (EnrichReturned /\ response.kind = "exception") =>
         /\ Len(courses) = 1
         /\ courses[1].course_name = << "Exception" >>
         /\ ContainsSeq(courses[1].description, << "Connection refused" >>)
    /\ (EnrichReturned /\ response.kind = "http" /\ response.status = 200
            /\ response.body # "candidates") =>
         /\ parsePath \notin {"json", "fallback"}
         /\ Len(courses) = 1
         /\ courses[1].course_name = << "Exception" >>

\* A call that got a 200 whose JSON body lacks the candidates path.
C10_Witness ==
    /\ EnrichReturned
    /\ response.kind = "http" /\ response.status = 200 /\ response.body = "nopath"
    /\ parsePath = "exception"

(***************************************************************************)
(* The enrichment loop of process_resume_file (specification Spec).        *)
(***************************************************************************)
\* C8: a run makes its enrichment calls one after another, one per ranked
\* recommendation in rank order, each with that recommendation's job_title
\* and the full resume text, and at most 3 HTTP calls in all, for every
\* scorer width and every loaded mapping; the output keeps the rank order and
\* each entry's job_title and confidence.
C8_RankOrderAtMostThreeCalls ==
    /\ httpCalls <= 3
    /\ Len(enrichLog) <= Len(job_recommendations)
    /\ Len(results) = Len(enrichLog)
    /\ \A i \in 1..Len(enrichLog) :
         /\ enrichLog[i].job_title = job_recommendations[i].job_title
         /\ enrichLog[i].resume_text = resume_text
         /\ results[i].job_title = job_recommendations[i].job_title
         /\ results[i].confidence = job_recommendations[i].confidence
    /\ (pc = "done" /\ IsSuccessShape(ret)) =>
         /\ ret.recommendations = results
         /\ Len(results) = Len(job_recommendations)

(***************************************************************************)
(* Properties of _extract_courses_from_text (specification SpecParse).     *)
(***************************************************************************)
\* The parser ran on parse_text: called on its own, or from line 221 or 223.
ParserRan == parsePath \in {"direct", "fallback"}
TextLines == SplitLines(parse_text)

\* The line's first token that is not a blank is an enumerator.
IsEnumLine(line) ==
    \E k \in 1..Len(line) : line[k] \in EnumTokens /\ \A j \in 1..(k - 1) : line[j] \in {" ", "\t"}
EnumLineNumbers == {i \in 1..Len(TextLines) : IsEnumLine(TextLines[i])}

\* The lines of the k-th section: from the k-th enumerator line up to the
\* line before the next one, or to the last line.
NthEnumLine(k) ==
    CHOOSE i \in EnumLineNumbers : Cardinality({j \in EnumLineNumbers : j < i}) = k - 1
LinesOfSection(k) ==
    LET first == NthEnumLine(k)
        later == {j \in EnumLineNumbers : j > first}
        last == IF later = {} THEN Len(TextLines)
                ELSE (CHOOSE j \in later : \A m \in later : j <= m) - 1
    IN  SubSeq(TextLines, first, last)

ExampleText == << "1.", "Course A", "\n", "Provider", ":", " ", "Udemy", "\n",
                  "2.", "Course B", "\n", "Provider", ":", " ", "edX" >>

\* C11: the parser returns one record per section, in input order, cut to
\* the first 3; a section runs from an enumerator line up to the line before
\* the next enumerator line, the last section included; each record is that
\* of the lines of its own section. For '1. Course A / Provider: Udemy /
\* 2. Course B / Provider: edX' it returns 2 records, of provider 'Udemy'
\* and 'edX'.
C11_OneRecordPerSection ==
    ParserRan =>
        /\ Len(courses) = Min(3, Cardinality(EnumLineNumbers))
        /\ \A k \in 1..Len(courses) :
             courses[k] = CourseOfSection(JoinLines(LinesOfSection(k)))
        /\ parse_text = ExampleText =>
             /\ Len(courses) = 2
             /\ courses[1].provider = << "Udemy" >>
             /\ courses[2].provider = << "edX" >>

\* A parse of a text of four sections, cut to the records of the first three.
C11_Witness ==
    /\ parsePath = "direct"
    /\ Cardinality(EnumLineNumbers) = 4
    /\ Len(courses) = 3
    /\ courses[3] = CourseOfSection(JoinLines(LinesOfSection(3)))

\* The fields in the order of their tests, and the keywords of each test.
FieldOrder == << "course_name", "provider", "description", "url", "relevance" >>
TriggersOf(n) ==
    CASE n = 1 -> {"course", "name"}
      [] n = 2 -> {"provider"}
      [] n = 3 -> {"description"}
      [] n = 4 -> {"url", "http"}
      [] n = 5 -> {"relevan"}
Fires(line, n) == \E kw \in TriggersOf(n) : LineContains(line, kw)

\* The one trigger that fires on the line: the first in the order whose
\* keyword the line holds; 0 if the line holds none.
FiredField(line) ==
    IF \E n \in 1..5 : Fires(line, n)
    THEN CHOOSE n \in 1..5 : Fires(line, n) /\ \A m \in 1..(n - 1) : ~Fires(line, m)
    ELSE 0
LineHasColon(line) == \E i \in 1..Len(line) : HasColon(line[i])
TextAfterColon(line) == Strip(SplitColon(line)[2])

\* The lines of section k that overwrite field n, and the value the field
\* ends with: that of the last such line, or the default.
Writers(k, n) ==
    {i \in 1..Len(LinesOfSection(k)) :
        FiredField(LinesOfSection(k)[i]) = n /\ LineHasColon(LinesOfSection(k)[i])}
DefaultOf(k, n) ==
    CASE n = 1 -> << "Unknown Course" >>
      [] n = 2 -> << "Unknown Provider" >>
      [] n = 3 -> JoinLines(LinesOfSection(k))
      [] OTHER -> << >>
FieldValue(k, n) ==
    IF Writers(k, n) = {} THEN DefaultOf(k, n)
    ELSE LET last == CHOOSE i \in Writers(k, n) : \A j \in Writers(k, n) : j <= i
         IN  TextAfterColon(LinesOfSection(k)[last])

\* C12: a record starts with course_name 'Unknown Course', provider
\* 'Unknown Provider', description the raw text of its section, url and
\* relevance empty; on each line of the section at most one trigger fires,
\* the first of (course or name), provider, description, (url or http),
\* relevan whose keyword is in the line in any letter case, and only its
\* field is overwritten, with the trimmed text after the first colon; a line
\* with no colon or no trigger changes nothing; a later line overwrites an
\* earlier one.
C12_FirstTriggerLastLineWins ==
    ParserRan =>
        \A k \in 1..Len(courses) : \A n \in 1..5 :
            courses[k][FieldOrder[n]] = FieldValue(k, n)

\* A parse where a line with the keywords of two triggers wrote the field of
\* the first, a later line overwrote it, and a line with a trigger and no
\* colon left its field at the default.
C12_Witness ==
    /\ parsePath = "direct"
    /\ Len(TextLines) = 3
    /\ Fires(TextLines[2], 1) /\ Fires(TextLines[2], 2)
    /\ Writers(1, 1) = {2, 3}
    /\ Len(courses) = 1
    /\ courses[1].course_name = << "edX" >>
    /\ courses[1].provider = << "Unknown Provider" >>
    /\ courses[1].description = parse_text

\* The text holds a parsable JSON list: some span of it from a '[' parses.
HoldsJsonList(t) ==
    \E i \in 1..Len(t) : \E j \in i..Len(t) :
        t[i] = "[" /\ JsonLoads(SubSeq(t, i, j)).ok

\* C13: the lines before the first enumerator line belong to no section, so
\* a text with no enumerator line gives an empty list; get_training_courses
\* with a credential and an HTTP 200 whose text holds neither a parsable
\* JSON list nor an enumerator line returns the empty list, not the sentinel.
C13_NoEnumeratorGivesEmptyList ==
    /\ ParserRan =>
         /\ Len(courses) <= Cardinality(EnumLineNumbers)
         /\ EnumLineNumbers = {} => courses = << >>
         /\ EnumLineNumbers # {} =>
              courses = ExtractCoursesFromText(
                            JoinLines(SubSeq(TextLines, NthEnumLine(1), Len(TextLines))))
    /\ ( /\ pc = "enrich_done"
         /\ EnumLineNumbers = {}
         /\ ~HoldsJsonList(parse_text) )
       => /\ courses = << >>
          /\ parsePath = "fallback"
          /\ raised = "none"

\* get_training_courses returned the empty list for a non-empty text with a
\* '[' that does not parse and no enumerator line.
C13_Witness ==
    /\ pc = "enrich_done"
    /\ parsePath = "fallback"
    /\ EnumLineNumbers = {}
    /\ \E i \in 1..Len(parse_text) : parse_text[i] = "["
    /\ \E i \in 1..Len(parse_text) : parse_text[i] = "Provider"
    /\ courses = << >>

\* A parse of a text whose first enumerator line is its third line.
C13_PreambleWitness ==
    /\ ParserRan
    /\ EnumLineNumbers # {}
    /\ NthEnumLine(1) = 3

====
